---- MODULE Spec2Model ----
(***************************************************************************)
(* Model of mcp_knowledge_tools/server.py: three MCP tools that forward a  *)
(* query to a dataset retrieval endpoint and render the JSON reply as text.*)
(* Text is modelled by strings, JSON values by tagged records [t, v].      *)
(***************************************************************************)
EXTENDS Integers, Sequences, FiniteSets, TLC

(***************************************************************************)
(* Program constants (server.py lines 12-18).                              *)
(***************************************************************************)
_DEFAULT_DATASET_TOKEN == "dataset-gCRaKZgnKtvqLdeuoCFjKiME"

_UX_DATASET_ID == "cab02597-6315-456c-92d3-19a65e3e7efd"

_LEAN_DATASET_ID == "67659dbe-4387-4122-8eb9-1d2005bea6a2"

_AUTOMATION_DATASET_ID == "b68de37f-a9f7-41fc-948f-eb89ca145770"

\* _DATASET_URL_TEMPLATE.format(data_id=data_id)
_DATASET_URL_TEMPLATE(data_id) ==
  "https://api.dify.ai/v1/datasets/" \o data_id \o "/retrieve"

(***************************************************************************)
(* JSON values as Python holds them after response.json().                 *)
(* A dict is a sequence of <<key, value>> pairs in insertion order, with   *)
(* distinct keys.                                                          *)
(***************************************************************************)
JNull == [t |-> "null", v |-> 0]

JBool(b) == [t |-> "bool", v |-> b]

JNum(n) == [t |-> "int", v |-> n]

\* a float with one decimal digit, held as its number of tenths
JFloat(tenths) == [t |-> "float", v |-> tenths]

JStr(s) == [t |-> "str", v |-> s]

JList(xs) == [t |-> "list", v |-> xs]

JDict(kvs) == [t |-> "dict", v |-> kvs]

\* isinstance(x, dict) / isinstance(x, list)
IsDict(x) == x.t = "dict"

IsList(x) == x.t = "list"

HasKey(d, k) == \E i \in 1..Len(d.v) : d.v[i][1] = k

\* dict.get(key): the value, or None when the key is absent
Get(d, k) ==
  IF HasKey(d, k)
  THEN d.v[CHOOSE i \in 1..Len(d.v) : d.v[i][1] = k][2]
  ELSE JNull

\* Python truthiness, as used by `or`, `if x` and `not x`
Truthy(x) ==
  CASE x.t = "null" -> FALSE
    [] x.t = "bool" -> x.v
    [] x.t = "int" -> x.v # 0
    [] x.t = "float" -> x.v # 0
    [] x.t = "str" -> x.v # ""
    [] x.t = "list" -> x.v # <<>>
    [] x.t = "dict" -> x.v # <<>>

\* Python's `a or b`
PyOr(a, b) == IF Truthy(a) THEN a ELSE b

(***************************************************************************)
(* Strings.                                                                *)
(***************************************************************************)
Char(s, i) == SubSeq(s, i, i)

StartsWith(s, p) == Len(p) <= Len(s) /\ SubSeq(s, 1, Len(p)) = p

Digit(d) == Char("0123456789", d + 1)

RECURSIVE IntStr(_)
\* str(n) of a non-negative int
IntStr(n) == IF n < 10 THEN Digit(n) ELSE IntStr(n \div 10) \o Digit(n % 10)

\* repr of a float with one decimal digit
FloatStr(tenths) == IntStr(tenths \div 10) \o "." \o Digit(tenths % 10)

IsSpace(c) == c \in {" ", "\n", "\t", "\r"}

RECURSIVE LStrip(_)
LStrip(s) ==
  IF s # "" /\ IsSpace(Char(s, 1)) THEN LStrip(SubSeq(s, 2, Len(s))) ELSE s

RECURSIVE RStrip(_)
RStrip(s) ==
  IF s # "" /\ IsSpace(Char(s, Len(s))) THEN RStrip(SubSeq(s, 1, Len(s) - 1)) ELSE s

\* str.strip()
strip(s) == RStrip(LStrip(s))

RECURSIVE join(_, _)
\* sep.join(parts)
join(sep, parts) ==
  IF parts = <<>> THEN ""
  ELSE IF Len(parts) = 1 THEN parts[1]
  ELSE parts[1] \o sep \o join(sep, Tail(parts))

RECURSIVE Spaces(_)
Spaces(n) == IF n = 0 THEN "" ELSE " " \o Spaces(n - 1)

HasChar(s, c) == \E i \in 1..Len(s) : Char(s, i) = c

(***************************************************************************)
(* str(x) and repr(x) of a Python value, as the f-strings call them.       *)
(***************************************************************************)
ReprQuote(s) == IF HasChar(s, "'") /\ ~HasChar(s, "\"") THEN "\"" ELSE "'"

ReprChar(q, c) ==
  CASE c = "\\" -> "\\\\"
    [] c = "\n" -> "\\n"
    [] c = "\t" -> "\\t"
    [] c = "\r" -> "\\r"
    [] c = q -> "\\" \o q
    [] OTHER -> c

RECURSIVE ReprChars(_, _, _)
\* the characters of s from the i-th on, escaped for the quote q
ReprChars(q, s, i) ==
  IF i > Len(s) THEN "" ELSE ReprChar(q, Char(s, i)) \o ReprChars(q, s, i + 1)

ReprStr(s) == LET q == ReprQuote(s) IN q \o ReprChars(q, s, 1) \o q

RECURSIVE PyRepr(_)
PyRepr(x) ==
  CASE x.t = "null" -> "None"
    [] x.t = "bool" -> IF x.v THEN "True" ELSE "False"
    [] x.t = "int" -> IntStr(x.v)
    [] x.t = "float" -> FloatStr(x.v)
    [] x.t = "str" -> ReprStr(x.v)
    [] x.t = "list" ->
         "[" \o join(", ", [i \in 1..Len(x.v) |-> PyRepr(x.v[i])]) \o "]"
    [] x.t = "dict" ->
         "{" \o join(", ", [i \in 1..Len(x.v) |->
                  ReprStr(x.v[i][1]) \o ": " \o PyRepr(x.v[i][2])]) \o "}"

\* format(x) in an f-string: str(x)
PyStr(x) == IF x.t = "str" THEN x.v ELSE PyRepr(x)

(***************************************************************************)
(* json.dumps(x, ensure_ascii=False) and json.dumps(x, ..., indent=2).     *)
(***************************************************************************)
JsonChar(c) ==
  CASE c = "\"" -> "\\\""
    [] c = "\\" -> "\\\\"
    [] c = "\n" -> "\\n"
    [] c = "\t" -> "\\t"
    [] c = "\r" -> "\\r"
    [] OTHER -> c

RECURSIVE JsonChars(_, _)
\* the characters of s from the i-th on, escaped
JsonChars(s, i) ==
  IF i > Len(s) THEN "" ELSE JsonChar(Char(s, i)) \o JsonChars(s, i + 1)

JsonStr(s) == "\"" \o JsonChars(s, 1) \o "\""

JsonScalar(x) ==
  CASE x.t = "null" -> "null"
    [] x.t = "bool" -> IF x.v THEN "true" ELSE "false"
    [] x.t = "int" -> IntStr(x.v)
    [] x.t = "float" -> FloatStr(x.v)
    [] x.t = "str" -> JsonStr(x.v)

RECURSIVE json_dumps(_)
\* compact form: separators ", " and ": "
json_dumps(x) ==
  CASE x.t = "list" ->
         "[" \o join(", ", [i \in 1..Len(x.v) |-> json_dumps(x.v[i])]) \o "]"
    [] x.t = "dict" ->
         "{" \o join(", ", [i \in 1..Len(x.v) |->
                  JsonStr(x.v[i][1]) \o ": " \o json_dumps(x.v[i][2])]) \o "}"
    [] OTHER -> JsonScalar(x)

RECURSIVE json_dumps_indent(_, _)
\* indent=2 form at nesting depth `level`
json_dumps_indent(x, level) ==
  LET inner == "\n" \o Spaces(2 * (level + 1))
      outer == "\n" \o Spaces(2 * level)
  IN CASE x.t = "list" ->
            IF x.v = <<>> THEN "[]"
            ELSE "[" \o inner
                 \o join("," \o inner,
                      [i \in 1..Len(x.v) |-> json_dumps_indent(x.v[i], level + 1)])
                 \o outer \o "]"
       [] x.t = "dict" ->
            IF x.v = <<>> THEN "{}"
            ELSE "{" \o inner
                 \o join("," \o inner,
                      [i \in 1..Len(x.v) |->
                         JsonStr(x.v[i][1]) \o ": "
                         \o json_dumps_indent(x.v[i][2], level + 1)])
                 \o outer \o "}"
       [] OTHER -> JsonScalar(x)

(***************************************************************************)
(* Outcome of a call: the returned text, or the exception that left it.    *)
(***************************************************************************)
Ok(text) == [kind |-> "ok", val |-> text]

Raise(exc) == [kind |-> "error", val |-> exc]

NoResult == [kind |-> "none", val |-> ""]

(***************************************************************************)
(* _build_headers (lines 23-34).  env is the DIFY_DATASET_TOKEN variable   *)
(* of the process environment: unset, or set to a string.                  *)
(***************************************************************************)
EnvUnset == [set |-> FALSE, val |-> ""]

EnvSet(s) == [set |-> TRUE, val |-> s]

\* os.getenv(name, default)
os_getenv(e, default) == IF e.set THEN e.val ELSE default

_build_headers(e) ==
  LET token == os_getenv(e, _DEFAULT_DATASET_TOKEN)
  IN IF token = ""
     THEN Raise("RuntimeError")
     ELSE [kind |-> "ok",
           val |-> [Authorization |-> "Bearer " \o token,
                    ContentType |-> "application/json"]]

(***************************************************************************)
(* _format_documents (lines 37-57).                                        *)
(***************************************************************************)
enumerate_from_zero(items) == [i \in 1..Len(items) |-> <<i - 1, items[i]>>]

\* enumerate(items, start=1)
enumerate(items) == [i \in 1..Len(items) |-> <<i, items[i]>>]

item_content_answer_first(item) ==
  PyOr(PyOr(Get(item, "answer"), Get(item, "content")), Get(item, "text"))

\* item.get("content") or item.get("answer") or item.get("text")
item_content(item) ==
  PyOr(PyOr(Get(item, "content"), Get(item, "answer")), Get(item, "text"))

\* item.get("metadata") or {}
item_metadata(item) == PyOr(Get(item, "metadata"), JDict(<<>>))

score_if_truthy(score) == Truthy(score)

\* score is not None
score_is_not_None(score) == score.t # "null"

\* the string appended to parts for one (index, item) of the loop
section(index, item) ==
  IF IsDict(item)
  THEN LET content == item_content(item)
           metadata == item_metadata(item)
           score == Get(item, "score")
           section_lines ==
             << IF Truthy(content)
                THEN IntStr(index) \o ". " \o PyStr(content)
                ELSE IntStr(index) \o ". (no content)" >>
             \o (IF score_is_not_None(score)
                 THEN << "   score: " \o PyStr(score) >> ELSE << >>)
             \o (IF Truthy(metadata)
                 THEN << "   metadata: " \o json_dumps(metadata) >> ELSE << >>)
       IN join("\n", section_lines)
  ELSE IntStr(index) \o ". " \o PyStr(item)

_format_documents(items) ==
  LET pairs == enumerate(items)
      parts == [i \in 1..Len(pairs) |-> section(pairs[i][1], pairs[i][2])]
  IN join("\n\n", parts)

(***************************************************************************)
(* _format_payload (lines 60-73).                                          *)
(***************************************************************************)
NoMatch == "No matching documents were found."

payload_keys_data_first == <<"data", "items", "documents", "results">>

\* the tuple the for loop walks
payload_keys == <<"items", "data", "documents", "results">>

never_empty(items) == FALSE

\* not items
not_items(items) == ~Truthy(items)

RECURSIVE format_loop(_, _)
\* the for loop from its k-th key on, and the fallback after it
format_loop(payload, k) ==
  IF k > Len(payload_keys)
  THEN json_dumps_indent(payload, 0)
  ELSE LET items == Get(payload, payload_keys[k])
       IN IF IsList(items)
          THEN IF not_items(items)
               THEN NoMatch
               ELSE LET formatted == _format_documents(items.v)
                    IN IF strip(formatted) # ""
                       THEN formatted
                       ELSE format_loop(payload, k + 1)
          ELSE format_loop(payload, k + 1)

\* payload.get exists on a dict only
_format_payload(payload) ==
  IF IsDict(payload)
  THEN Ok(format_loop(payload, 1))
  ELSE Raise("AttributeError")

(***************************************************************************)
(* _query_dataset (lines 76-87) and the three tools (lines 90-108).        *)
(***************************************************************************)
Tools == {"query_ux_knowledge", "query_lean_knowledge", "query_automation_step"}

tool_data_id_swapped(t) ==
  CASE t = "query_ux_knowledge" -> _LEAN_DATASET_ID
    [] t = "query_lean_knowledge" -> _UX_DATASET_ID
    [] t = "query_automation_step" -> _AUTOMATION_DATASET_ID

\* the dataset id each tool passes to _query_dataset
tool_data_id(t) ==
  CASE t = "query_ux_knowledge" -> _UX_DATASET_ID
    [] t = "query_lean_knowledge" -> _LEAN_DATASET_ID
    [] t = "query_automation_step" -> _AUTOMATION_DATASET_ID

query_is_empty_only(q) == q = ""

\* not query or not query.strip()
query_rejected(q) == q = "" \/ strip(q) = ""

status_never_raises(status) == FALSE

\* response.raise_for_status() raises
raise_for_status(status) == status >= 400

(***************************************************************************)
(* Inputs: the queries callers send and the replies the upstream gives.    *)
(***************************************************************************)
MaxQueryLen == 2

MaxItems == 3

MaxReturns == 1

QueryChars == {" ", "a"}

RECURSIVE StringsUpTo(_)
StringsUpTo(n) ==
  IF n = 0 THEN {""}
  ELSE LET S == StringsUpTo(n - 1) IN S \cup {s \o c : s \in S, c \in QueryChars}

Queries == StringsUpTo(MaxQueryLen)

\* a key that a generated object leaves out
Absent == [t |-> "absent", v |-> 0]

\* the object holding the given <<key, value>> pairs, Absent ones left out
MkDict(kvs) == JDict(SelectSeq(kvs, LAMBDA kv : kv[2] # Absent))

\* an upstream reply: a transport fault, or a status with a body
Reply(fault, status, isjson, payload) ==
  [fault |-> fault, status |-> status, isjson |-> isjson, payload |-> payload]

NoReply == Reply("pending", 0, FALSE, JNull)

TransportFault == Reply("transport", 0, FALSE, JNull)

Http(status, payload) == Reply("none", status, TRUE, payload)

HttpNotJson(status) == Reply("none", status, FALSE, JNull)

ExampleItem ==
  JDict(<< <<"content", JStr("Use 5S")>>, <<"score", JFloat(9)>>,
           <<"metadata", JDict(<< <<"tag", JStr("lean")>> >>)>> >>)

ExamplePayload == JDict(<< <<"results", JList(<<ExampleItem>>)>> >>)

ServerReplies ==
  { TransportFault, HttpNotJson(200), HttpNotJson(404), Http(500, ExamplePayload),
    Http(200, ExamplePayload), Http(200, JList(<<JStr("a")>>)) }

(***************************************************************************)
(* Payloads given to the Normalizer.                                       *)
(***************************************************************************)
\* values a priority field may hold: not a sequence, empty, or non-empty
FieldValues ==
  { Absent, JNull, JStr("x"), JList(<<>>), JList(<<JStr("a")>>),
    JList(<<ExampleItem>>) }

PriorityPayloads ==
  { MkDict(<< <<"items", f[1]>>, <<"data", f[2]>>, <<"documents", f[3]>>,
              <<"results", f[4]>> >>) : f \in [1..4 -> FieldValues] }

ContentValues ==
  { Absent, JNull, JStr(""), JStr("a"), JStr(" "), JNum(0), JNum(7), JBool(FALSE) }

AnswerValues == { Absent, JStr(""), JStr("b"), JNum(0) }

TextValues == { Absent, JNull, JStr("c") }

ScoreValues ==
  { Absent, JNull, JNum(0), JFloat(9), JFloat(0), JStr("hi"), JStr(""),
    JBool(FALSE), JBool(TRUE) }

MetadataValues ==
  { Absent, JNull, JDict(<<>>), JDict(<< <<"tag", JStr("lean")>> >>) }

\* result items that are key-value mappings
MappingItems ==
  { MkDict(<< <<"content", co>>, <<"answer", an>>, <<"text", te>>,
              <<"score", sc>>, <<"metadata", me>> >>) :
      co \in ContentValues, an \in AnswerValues, te \in TextValues,
      sc \in ScoreValues, me \in MetadataValues }

\* a few items of every kind, for the lists of several elements
SmallItems ==
  { JStr("x"), JNum(7), JList(<<JNum(1), JStr("a")>>),
    JDict(<< <<"content", JStr("a\n\nb")>> >>),
    JDict(<< <<"answer", JStr("b")>>, <<"score", JFloat(9)>> >>) }

RECURSIVE ListsUpTo(_, _)
\* the non-empty sequences over S of at most n elements
ListsUpTo(S, n) ==
  IF n = 0 THEN {}
  ELSE LET L == ListsUpTo(S, n - 1)
       IN {<<x>> : x \in S} \cup L \cup {Append(l, x) : l \in L, x \in S}

ListKeys == {"items", "data", "documents", "results"}

ElevenItems == [i \in 1..11 |-> JStr("x")]

NormalizerPayloads ==
  PriorityPayloads
  \cup { JDict(<< <<k, JList(<<it>>)>> >>) : k \in ListKeys, it \in MappingItems }
  \cup { JDict(<< <<"status", JStr("ok")>>, <<"results", JList(<<JStr("x"), it>>)>> >>) :
           it \in MappingItems }
  \cup { JDict(<< <<k, JList(l)>> >>) : k \in ListKeys, l \in ListsUpTo(SmallItems, MaxItems) }
  \cup { JDict(<< <<"items", JList(ElevenItems)>> >>), ExamplePayload,
         JDict(<< <<"status", JStr("ok")>> >>), JDict(<<>>),
         JDict(<< <<"status", JStr("ok")>>, <<"hits", JList(<<JNum(1)>>)>>,
                  <<"items", JDict(<< <<"data", JList(<<>>)>> >>)>> >>),
         JNull, JBool(TRUE), JNum(1), JStr("ok"), JList(<<>>), JList(<<ExampleItem>>) }

VARIABLES env, pc, tool, query, posts, response, normalized, result, returns

vars == <<env, pc, tool, query, posts, response, normalized, result, returns>>

Calls == {"c1", "c2"}

Init ==
  /\ env \in {EnvUnset, EnvSet(""), EnvSet("tok")}
  /\ pc = [c \in Calls |-> "idle"]
  /\ tool = [c \in Calls |-> "none"]
  /\ query = [c \in Calls |-> ""]
  /\ posts = [c \in Calls |-> <<>>]
  /\ response = [c \in Calls |-> NoReply]
  /\ normalized = [c \in Calls |-> 0]
  /\ result = [c \in Calls |-> NoResult]
  /\ returns = 0

\* the request body taken from the first call slot instead of the call's own query
PostRequest_shared_query(t, q, headers) ==
  [url |-> _DATASET_URL_TEMPLATE(tool_data_id(t)),
   headers |-> headers,
   json |-> JDict(<< <<"query", JStr(query["c1"])>> >>)]

\* client.post(url, headers=..., json={"query": query})
PostRequest(t, q, headers) ==
  [url |-> _DATASET_URL_TEMPLATE(tool_data_id(t)),
   headers |-> headers,
   json |-> JDict(<< <<"query", JStr(q)>> >>)]

\* A tool is called: the tool function and _query_dataset run up to the
\* await of client.post (lines 79-84), or to the exception that ends them.
Call(c, t, q) ==
  /\ pc[c] = "idle"
  /\ tool' = [tool EXCEPT ![c] = t]
  /\ query' = [query EXCEPT ![c] = q]
  /\ IF query_rejected(q)
     THEN /\ result' = [result EXCEPT ![c] = Raise("ValueError")]
          /\ pc' = [pc EXCEPT ![c] = "done"]
          /\ posts' = posts
     ELSE LET headers == _build_headers(env)
          IN IF headers.kind = "error"
             THEN /\ result' = [result EXCEPT ![c] = headers]
                  /\ pc' = [pc EXCEPT ![c] = "done"]
                  /\ posts' = posts
             ELSE /\ posts' = [posts EXCEPT
                                 ![c] = Append(@, PostRequest(t, q, headers.val))]
                  /\ pc' = [pc EXCEPT ![c] = "awaiting"]
                  /\ result' = result
  /\ UNCHANGED <<env, response, normalized, returns>>

\* what follows the await once the upstream has answered (lines 84-87)
after_post(r) ==
  IF r.fault = "transport" THEN Raise("TransportError")
  ELSE IF raise_for_status(r.status) THEN Raise("HTTPStatusError")
  ELSE IF ~r.isjson THEN Raise("JSONDecodeError")
  ELSE _format_payload(r.payload)

\* _format_payload is reached
reaches_format_payload(r) ==
  r.fault # "transport" /\ ~raise_for_status(r.status) /\ r.isjson

\* The awaited POST of call c completes with reply r and the call runs to
\* its end (lines 84-87).
Respond(c, r) ==
  /\ pc[c] = "awaiting"
  /\ response' = [response EXCEPT ![c] = r]
  /\ normalized' = [normalized EXCEPT
                      ![c] = IF reaches_format_payload(r) THEN @ + 1 ELSE @]
  /\ result' = [result EXCEPT ![c] = after_post(r)]
  /\ pc' = [pc EXCEPT ![c] = "done"]
  /\ UNCHANGED <<env, tool, query, posts, returns>>

\* The runtime hands the outcome to the caller; nothing of the call is kept.
Return(c) ==
  /\ pc[c] = "done"
  /\ returns < MaxReturns
  /\ returns' = returns + 1
  /\ pc' = [pc EXCEPT ![c] = "idle"]
  /\ tool' = [tool EXCEPT ![c] = "none"]
  /\ query' = [query EXCEPT ![c] = ""]
  /\ posts' = [posts EXCEPT ![c] = <<>>]
  /\ response' = [response EXCEPT ![c] = NoReply]
  /\ normalized' = [normalized EXCEPT ![c] = 0]
  /\ result' = [result EXCEPT ![c] = NoResult]
  /\ env' = env

Next ==
  \E c \in Calls :
    \/ \E t \in Tools, q \in Queries : Call(c, t, q)
    \/ \E r \in ServerReplies : Respond(c, r)
    \/ Return(c)

Spec == Init /\ [][Next]_vars

(***************************************************************************)
(* The Normalizer on its own: one call with a valid query whose upstream   *)
(* reply is a 200 with any payload of NormalizerPayloads.                  *)
(***************************************************************************)
InitNormalizer == Init /\ env = EnvUnset

NextNormalizer ==
  \/ \E t \in Tools : Call("c1", t, "5S")
  \/ /\ pc["c1"] = "awaiting"
     /\ \E p \in NormalizerPayloads : Respond("c1", Http(200, p))

SpecNormalizer == InitNormalizer /\ [][NextNormalizer]_vars

(***************************************************************************)
(* Vocabulary of the properties.                                           *)
(***************************************************************************)
Min(S) == CHOOSE m \in S : \A x \in S : m <= x

\* the query has no character that is not whitespace
OnlyWhitespace(q) == \A i \in 1..Len(q) : IsSpace(Char(q, i))

UxEndpoint ==
  "https://api.dify.ai/v1/datasets/cab02597-6315-456c-92d3-19a65e3e7efd/retrieve"

LeanEndpoint ==
  "https://api.dify.ai/v1/datasets/67659dbe-4387-4122-8eb9-1d2005bea6a2/retrieve"

AutomationEndpoint ==
  "https://api.dify.ai/v1/datasets/b68de37f-a9f7-41fc-948f-eb89ca145770/retrieve"

EndpointOf(t) ==
  CASE t = "query_ux_knowledge" -> UxEndpoint
    [] t = "query_lean_knowledge" -> LeanEndpoint
    [] t = "query_automation_step" -> AutomationEndpoint

Started(c) == pc[c] # "idle"

\* the token the Credential Resolver resolves is not empty
TokenResolves == env.set => env.val # ""

\* call c got a success status with a JSON body, which went to the Normalizer
Normalized(c) ==
  /\ pc[c] = "done"
  /\ response[c].fault = "none" /\ response[c].status = 200 /\ response[c].isjson

PriorityFields == <<"items", "data", "documents", "results">>

\* the positions in the priority order whose field holds a sequence
SeqFields(p) ==
  IF p.t = "dict"
  THEN {i \in 1..4 : HasKey(p, PriorityFields[i]) /\ Get(p, PriorityFields[i]).t = "list"}
  ELSE {}

\* the elements of the first field, in priority order, that holds a sequence
FirstSeq(p) == Get(p, PriorityFields[Min(SeqFields(p))]).v

\* call c's payload is an object with a sequence under a priority field
Selected(c) == Normalized(c) /\ SeqFields(response[c].payload) # {}

(***************************************************************************)
(* C1.  A call whose query is empty or only whitespace fails with the      *)
(* InvalidArgument error (ValueError) and at no point of the call is a     *)
(* POST issued.                                                            *)
(***************************************************************************)
C1_BlankQueryRejectedBeforePost ==
  \A c \in Calls :
    Started(c) /\ OnlyWhitespace(query[c]) =>
      /\ pc[c] = "done"
      /\ result[c] = Raise("ValueError")
      /\ posts[c] = <<>>
      /\ response[c] = NoReply

C1_Witness ==
  \E c \in Calls :
    /\ pc[c] = "done" /\ Len(query[c]) = 2 /\ OnlyWhitespace(query[c])
    /\ result[c] = Raise("ValueError")

(***************************************************************************)
(* C2.  As claimed: every call with a valid query issues exactly one POST, *)
(* to the endpoint of its tool's own domain; no call posts elsewhere or    *)
(* more than once.                                                         *)
(***************************************************************************)
PostsOnlyToOwnEndpoint(c) ==
  /\ Len(posts[c]) <= 1
  /\ \A i \in 1..Len(posts[c]) :
       /\ posts[c][i].url = EndpointOf(tool[c])
       /\ \A t \in Tools \ {tool[c]} : posts[c][i].url # EndpointOf(t)

C2_ExactlyOnePostToOwnEndpoint ==
  \A c \in Calls :
    Started(c) =>
      /\ PostsOnlyToOwnEndpoint(c)
      /\ ~OnlyWhitespace(query[c]) => Len(posts[c]) = 1

(***************************************************************************)
(* C2, amended.  Every call with a valid query issues exactly one POST     *)
(* when the resolved dataset token is not empty, and none when it is empty *)
(* (the call then ends with the configuration error); the POST goes to the *)
(* endpoint of the tool's own domain, and no call posts elsewhere or more  *)
(* than once.                                                              *)
(***************************************************************************)
C2_OnePostToOwnEndpointIfTokenResolves ==
  \A c \in Calls :
    Started(c) =>
      /\ PostsOnlyToOwnEndpoint(c)
      /\ ~OnlyWhitespace(query[c]) /\ TokenResolves => Len(posts[c]) = 1
      /\ ~OnlyWhitespace(query[c]) /\ ~TokenResolves =>
           posts[c] = <<>> /\ result[c] = Raise("RuntimeError")

C2_Witness ==
  /\ \A c \in Calls : pc[c] = "done" /\ Len(posts[c]) = 1
  /\ tool["c1"] = "query_automation_step" /\ posts["c1"][1].url = AutomationEndpoint
  /\ tool["c2"] = "query_ux_knowledge" /\ posts["c2"][1].url = UxEndpoint

(***************************************************************************)
(* C3.  When the upstream status indicates failure the call ends with the  *)
(* UpstreamError (HTTPStatusError), the Normalizer was never invoked for   *)
(* it, and its one POST is the only one: nothing is retried.               *)
(***************************************************************************)
C3_FailureStatusIsFinal ==
  \A c \in Calls :
    response[c].fault = "none" /\ response[c].status \in 400..599 =>
      /\ pc[c] = "done"
      /\ result[c] = Raise("HTTPStatusError")
      /\ normalized[c] = 0
      /\ Len(posts[c]) = 1

C3_Witness ==
  \E c \in Calls :
    /\ response[c].status = 500 /\ response[c].isjson
    /\ SeqFields(response[c].payload) # {}
    /\ result[c] = Raise("HTTPStatusError")

(***************************************************************************)
(* C4.  If the first priority field holding a sequence holds an empty one, *)
(* the Normalizer returns exactly "No matching documents were found.",     *)
(* whatever the lower-priority fields hold.                                *)
(***************************************************************************)
C4_EmptyFirstSequenceGivesNoMatch ==
  \A c \in Calls :
    Selected(c) /\ FirstSeq(response[c].payload) = <<>> =>
      result[c] = Ok("No matching documents were found.")

C4_Witness ==
  \E c \in Calls :
    /\ Selected(c) /\ FirstSeq(response[c].payload) = <<>>
    /\ \E i \in SeqFields(response[c].payload) :
         Get(response[c].payload, PriorityFields[i]).v # <<>>
    /\ result[c] = Ok("No matching documents were found.")

(***************************************************************************)
(* C5.  The result list is the first field, in the order items, data,      *)
(* documents, results, that holds a sequence: earlier fields that are not  *)
(* sequences are skipped, and the output is decided by that sequence alone,*)
(* no later field having a part in it.                                     *)
(***************************************************************************)
C5_FirstSequenceFieldDecides ==
  \A c \in Calls :
    Selected(c) =>
      LET items == FirstSeq(response[c].payload)
      IN result[c] = Ok(IF items = <<>>
                        THEN "No matching documents were found."
                        ELSE _format_documents(items))

C5_Witness ==
  \E c \in Calls :
    /\ Selected(c)
    /\ LET p == response[c].payload
           first == Min(SeqFields(p))
       IN /\ first > 1 /\ HasKey(p, "items")
          /\ FirstSeq(p) # <<>>
          /\ \E i \in SeqFields(p) :
               /\ i > first
               /\ Get(p, PriorityFields[i]).v \notin {<<>>, FirstSeq(p)}
          /\ result[c] = Ok(_format_documents(FirstSeq(p)))

(***************************************************************************)
(* C6.  As claimed: for every payload, object or not, in which no priority *)
(* field holds a sequence, the Normalizer returns the indented JSON of the *)
(* whole payload, never an empty string and never an error.                *)
(***************************************************************************)
C6_FallbackForAnyPayload ==
  \A c \in Calls :
    Normalized(c) /\ SeqFields(response[c].payload) = {} =>
      /\ result[c].kind = "ok"
      /\ result[c].val = json_dumps_indent(response[c].payload, 0)
      /\ result[c].val # ""

(***************************************************************************)
(* C7.  For a non-empty result list of N elements the output consists of   *)
(* exactly N blocks separated by blank lines, the k-th block beginning     *)
(* with "k. " and rendering the k-th element of the list.                  *)
(***************************************************************************)
\* the places of text where a blank line ("\n\n") starts
BlankLines(text) == {i \in 1..(Len(text) - 1) : SubSeq(text, i, i + 1) = "\n\n"}

RECURSIVE Sorted(_)
Sorted(S) == IF S = {} THEN <<>> ELSE <<Min(S)>> \o Sorted(S \ {Min(S)})

\* the pieces of text between the blank lines at cuts
Pieces(text, cuts) ==
  LET at == Sorted(cuts)
  IN [k \in 1..(Len(at) + 1) |->
        SubSeq(text,
               IF k = 1 THEN 1 ELSE at[k - 1] + 2,
               IF k = Len(at) + 1 THEN Len(text) ELSE at[k] - 1)]

\* text is n blocks separated by blank lines, the k-th satisfying Block(k, _)
IsBlocks(text, n, Block(_, _)) ==
  \E cuts \in SUBSET BlankLines(text) :
    /\ Cardinality(cuts) = n - 1
    /\ \A i, j \in cuts : i # j => (i - j >= 2 \/ j - i >= 2)
    /\ \A k \in 1..n : Block(k, Pieces(text, cuts)[k])

\* C7: the output of a non-empty list of N elements is N blocks separated by
\* blank lines, the k-th beginning with "k. " and rendering the k-th element.
C7_OneNumberedBlockPerElement ==
  \A c \in Calls :
    Selected(c) /\ FirstSeq(response[c].payload) # <<>> =>
      LET items == FirstSeq(response[c].payload)
          Block(k, b) == StartsWith(b, IntStr(k) \o ". ") /\ b = section(k, items[k])
      IN result[c].kind = "ok" /\ IsBlocks(result[c].val, Len(items), Block)

C7_Witness ==
  \E c \in Calls :
    /\ Selected(c) /\ Len(FirstSeq(response[c].payload)) = 11
    /\ StartsWith(result[c].val, "1. x\n\n2. x\n\n3. x")
    /\ Cardinality(BlankLines(result[c].val)) = 10

(***************************************************************************)
(* C8 and C9 describe the block of a mapping item: a first line, then the  *)
(* score line, then the metadata line.                                     *)
(***************************************************************************)
FirstLineOf(k, item) ==
  IntStr(k) \o ". "
  \o (IF Truthy(item_content(item)) THEN PyStr(item_content(item)) ELSE "(no content)")

ScoreLineOf(item) ==
  IF score_is_not_None(Get(item, "score"))
  THEN "\n   score: " \o PyStr(Get(item, "score")) ELSE ""

MetadataLineOf(item) ==
  IF Truthy(item_metadata(item))
  THEN "\n   metadata: " \o json_dumps(item_metadata(item)) ELSE ""

\* the output for items when a mapping item at k is rendered as Mapping(k, item)
OutputWith(items, Mapping(_, _)) ==
  join("\n\n", [k \in 1..Len(items) |->
                  IF items[k].t = "dict" THEN Mapping(k, items[k])
                  ELSE section(k, items[k])])

IsScalar(x) == x.t \in {"null", "bool", "int", "float", "str"}

\* every mapping item of the list has no score or a scalar one
ScalarScores(items) ==
  \A k \in 1..Len(items) :
    items[k].t = "dict" /\ HasKey(items[k], "score") => IsScalar(Get(items[k], "score"))

(***************************************************************************)
(* C8.  As claimed: the block of a mapping item has a score line if and    *)
(* only if the item has a score field, for any JSON scalar in it, and the  *)
(* line shows the value.                                                   *)
(***************************************************************************)
C8_ScoreLineIffScoreField ==
  \A c \in Calls :
    Selected(c) /\ ScalarScores(FirstSeq(response[c].payload)) =>
      LET Mapping(k, item) ==
            FirstLineOf(k, item)
            \o (IF HasKey(item, "score")
                THEN "\n   score: " \o PyStr(Get(item, "score")) ELSE "")
            \o MetadataLineOf(item)
      IN FirstSeq(response[c].payload) # <<>> =>
           result[c] = Ok(OutputWith(FirstSeq(response[c].payload), Mapping))

(***************************************************************************)
(* C8, amended.  The block of a mapping item has a score line if and only  *)
(* if the item has a score field whose value is not null, for any other    *)
(* JSON scalar in it (0, false and "" included), and the line shows the    *)
(* value's string form.                                                    *)
(***************************************************************************)
C8_ScoreLineIffScoreNotNull ==
  \A c \in Calls :
    Selected(c) /\ ScalarScores(FirstSeq(response[c].payload)) =>
      LET Mapping(k, item) ==
            FirstLineOf(k, item)
            \o (IF HasKey(item, "score") /\ Get(item, "score").t # "null"
                THEN "\n   score: " \o PyStr(Get(item, "score")) ELSE "")
            \o MetadataLineOf(item)
      IN FirstSeq(response[c].payload) # <<>> =>
           result[c] = Ok(OutputWith(FirstSeq(response[c].payload), Mapping))

C8_Witness ==
  \E c \in Calls :
    /\ Selected(c) /\ Len(FirstSeq(response[c].payload)) = 2
    /\ LET item == FirstSeq(response[c].payload)[2]
       IN /\ item.t = "dict" /\ Get(item, "score") = JNum(0)
          /\ Get(item, "content") = JStr("a") /\ ~HasKey(item, "metadata")
          /\ result[c] = Ok("1. x\n\n2. a\n   score: 0")

(***************************************************************************)
(* C9.  As claimed: the display string of a mapping item is the value of   *)
(* content if it is non-empty, else of answer if non-empty, else of text   *)
(* if non-empty; with none of them present and non-empty the first line is *)
(* "<index>. (no content)".                                                *)
(***************************************************************************)
\* the field is there and holds neither null nor an empty string or collection
PresentNonEmpty(item, k) ==
  /\ HasKey(item, k)
  /\ Get(item, k) \notin {JNull, JStr(""), JList(<<>>), JDict(<<>>)}

C9_DisplayFirstNonEmpty ==
  \A c \in Calls :
    Selected(c) /\ FirstSeq(response[c].payload) # <<>> =>
      LET Display(item) ==
            IF PresentNonEmpty(item, "content") THEN PyStr(Get(item, "content"))
            ELSE IF PresentNonEmpty(item, "answer") THEN PyStr(Get(item, "answer"))
            ELSE IF PresentNonEmpty(item, "text") THEN PyStr(Get(item, "text"))
            ELSE "(no content)"
          Mapping(k, item) ==
            IntStr(k) \o ". " \o Display(item) \o ScoreLineOf(item) \o MetadataLineOf(item)
      IN result[c] = Ok(OutputWith(FirstSeq(response[c].payload), Mapping))

(***************************************************************************)
(* C9, amended.  The display string of a mapping item is the string form   *)
(* of the first of content, answer, text whose value is truthy, that is    *)
(* present and none of null, false, 0, 0.0, "", [] and {}; with none of    *)
(* them truthy the first line is "<index>. (no content)".                  *)
(***************************************************************************)
PresentTruthy(item, k) ==
  /\ HasKey(item, k)
  /\ Get(item, k) \notin {JNull, JBool(FALSE), JNum(0), JFloat(0), JStr(""),
                          JList(<<>>), JDict(<<>>)}

C9_DisplayFirstTruthy ==
  \A c \in Calls :
    Selected(c) /\ FirstSeq(response[c].payload) # <<>> =>
      LET Display(item) ==
            IF PresentTruthy(item, "content") THEN PyStr(Get(item, "content"))
            ELSE IF PresentTruthy(item, "answer") THEN PyStr(Get(item, "answer"))
            ELSE IF PresentTruthy(item, "text") THEN PyStr(Get(item, "text"))
            ELSE "(no content)"
          Mapping(k, item) ==
            IntStr(k) \o ". " \o Display(item) \o ScoreLineOf(item) \o MetadataLineOf(item)
      IN result[c] = Ok(OutputWith(FirstSeq(response[c].payload), Mapping))

C9_Witness ==
  \E c \in Calls :
    /\ Selected(c) /\ Len(FirstSeq(response[c].payload)) = 1
    /\ LET item == FirstSeq(response[c].payload)[1]
       IN /\ item.t = "dict" /\ Get(item, "content") = JStr("")
          /\ Get(item, "answer") = JStr("") /\ Get(item, "text") = JStr("c")
          /\ ~HasKey(item, "score") /\ ~HasKey(item, "metadata")
          /\ result[c] = Ok("1. c")

(***************************************************************************)
(* C10.  Under any interleaving of calls, what a call posts and what it    *)
(* returns is what the same call does when run alone: a function of its    *)
(* own tool, query and upstream reply (and of the process's configured     *)
(* token).  Two calls with the same inputs have the same outcome, and a    *)
(* step of one call leaves every other call's data as it was.              *)
(***************************************************************************)
\* what a call of tool t with query q posts when run alone
AlonePosts(t, q) ==
  IF OnlyWhitespace(q) \/ ~TokenResolves THEN <<>>
  ELSE << [url |-> EndpointOf(t),
           headers |-> [Authorization |->
                          "Bearer " \o (IF env.set THEN env.val
                                        ELSE "dataset-gCRaKZgnKtvqLdeuoCFjKiME"),
                        ContentType |-> "application/json"],
           json |-> JDict(<< <<"query", JStr(q)>> >>)] >>

\* what that call returns when run alone and the upstream replies r
AloneResult(t, q, r) ==
  IF OnlyWhitespace(q) THEN Raise("ValueError")
  ELSE IF ~TokenResolves THEN Raise("RuntimeError")
  ELSE IF r.fault = "transport" THEN Raise("TransportError")
  ELSE IF r.status \in 400..599 THEN Raise("HTTPStatusError")
  ELSE IF ~r.isjson THEN Raise("JSONDecodeError")
  ELSE _format_payload(r.payload)

LocalData(c) ==
  <<pc[c], tool[c], query[c], posts[c], response[c], normalized[c], result[c]>>

C10_OutcomeAsAlone ==
  /\ \A c \in Calls :
       /\ Started(c) => posts[c] = AlonePosts(tool[c], query[c])
       /\ pc[c] = "awaiting" => result[c] = NoResult /\ response[c] = NoReply
       /\ pc[c] = "done" => result[c] = AloneResult(tool[c], query[c], response[c])
  /\ \A c, d \in Calls :
       /\ pc[c] = "done" /\ pc[d] = "done"
       /\ tool[c] = tool[d] /\ query[c] = query[d] /\ response[c] = response[d]
       => posts[c] = posts[d] /\ result[c] = result[d]

C10_OtherCallsUntouched ==
  \E c \in Calls : \A d \in Calls \ {c} : LocalData(d)' = LocalData(d)

\* C10: every call ends as it would alone, and no call touches another's data.
C10_CallsIndependent == []C10_OutcomeAsAlone /\ [][C10_OtherCallsUntouched]_vars

C10_Witness ==
  /\ pc["c1"] = "awaiting" /\ pc["c2"] = "done"
  /\ tool["c1"] = tool["c2"] /\ query["c1"] # query["c2"]
  /\ posts["c1"] # posts["c2"]
  /\ result["c2"].kind = "ok" /\ result["c1"] = NoResult
====
